---- MODULE Spec2Model ----
(***************************************************************************)
(* Model of flask-mongo-app/app.py: an HTTP service over three MongoDB     *)
(* collections (items, tags, item_tags).  Every handler is one action of   *)
(* Spec; SpecLogged is Spec with the last request kept in the state;       *)
(* SpecConc splits create_item_tag_association into its storage calls,     *)
(* run by concurrent workers.                                              *)
(***************************************************************************)
EXTENDS Naturals, Integers, Sequences, FiniteSets, TLC

(* ------------------------------ bounds -------------------------------- *)
\* documents the items and tags collections may hold together
MaxDocs == 3
\* longest tag_ids list of a request
MaxLen == 2
\* concurrent requests in flight (SpecConc)
NumWorkers == 2

VARIABLES
    items,      \* mongo.db.items: sequence of documents, in insertion order
    tags,       \* mongo.db.tags: sequence of documents, in insertion order
    item_tags,  \* mongo.db.item_tags: sequence of {item_id, tag_ids} documents
    nextOid,    \* the ObjectId generator (next value it hands out)
    response,   \* what the last handler returned
    request,    \* SpecLogged: the request the last handler was given
    assoc_log,  \* history: item oid -> tag oids of its successful associate calls
    workers     \* SpecConc: each in-flight request's position and locals

vars == <<items, tags, item_tags, nextOid, response, request, assoc_log, workers>>

(* --------------------------- identifiers ------------------------------ *)
\* ObjectId values are 1, 2, ...; MaxOid is one the generator never reaches.
MaxOid == MaxDocs + 1

\* An id no document has: what ObjectId() yields when called with None.
FreshOid == 0

\* External values that arrive as item_id or as elements of tag_ids.
\* "hex" is a 24-digit hexadecimal string spelling ObjectId val, in lower or
\* upper case; "text" any other string or a JSON number; "null" JSON null.
Hex(n, up) == [kind |-> "hex", val |-> n, upper |-> up]
Text == [kind |-> "text", val |-> 0, upper |-> FALSE]
Null == [kind |-> "null", val |-> 0, upper |-> FALSE]

\* _id of a stored document: an ObjectId, or a value the client supplied.
Oid(n) == [kind |-> "oid", val |-> n]
Raw(k) == [kind |-> "raw", val |-> k]

\* ObjectId(x): parses a 24-digit hex string of either case; called with None
\* it generates a new id; anything else raises (InvalidId or TypeError).
ObjectIdRaises(x) == x.kind = "text"
ObjectId(x) == IF x.kind = "hex" THEN x.val ELSE FreshOid

\* [ObjectId(tag_id) for tag_id in tag_ids]
ObjectIds(elems) == [k \in 1..Len(elems) |-> ObjectId(elems[k])]

\* str(oid): the lower-case hex spelling.
StrOid(n) == Hex(n, FALSE)

\* [str(tid) for tid in tag_oids]
StrOids(oids) == [k \in 1..Len(oids) |-> StrOid(oids[k])]

\* str(doc["_id"]) for any stored _id.
StrId(id) == IF id.kind = "oid" THEN StrOid(id.val)
             ELSE [kind |-> "text", val |-> id.val, upper |-> FALSE]

(* ------------------------------ helpers ------------------------------- *)
Range(s) == {s[k] : k \in 1..Len(s)}

RECURSIVE SeqsUpTo(_, _)
SeqsUpTo(S, n) ==
    IF n = 0 THEN {<<>>}
    ELSE LET shorter == SeqsUpTo(S, n - 1)
         IN  shorter \cup {Append(s, x) : s \in {t \in shorter : Len(t) = n - 1}, x \in S}

RECURSIVE SelectDocs(_, _)
\* collection.find({"_id": {"$in": ids}}): the documents whose _id is an
\* ObjectId among ids, each once, in collection order.
SelectDocs(coll, ids) ==
    IF coll = <<>> THEN <<>>
    ELSE LET d == Head(coll)
             rest == SelectDocs(Tail(coll), ids)
         IN  IF d._id.kind = "oid" /\ d._id.val \in ids THEN <<d>> \o rest ELSE rest

\* collection.find_one({"_id": oid}) is not None
FindOneById(coll, oid) == \E k \in 1..Len(coll) : coll[k]._id = Oid(oid)

(* ------------------------------ requests ------------------------------ *)
\* JSON bodies of POST /items and POST /tags as request.get_json() returns
\* them: None (no body), an object (with or without an "_id" key, with or
\* without other keys), or an array.
NoBody == [kind |-> "none", _id |-> 0, name |-> ""]
Object(id, nm) == [kind |-> "object", _id |-> id, name |-> nm]
Array(nm) == [kind |-> "array", _id |-> 0, name |-> nm]

Payloads == {NoBody, Object(0, ""), Object(0, "a"), Object(1, "a"), Array(""), Array("a")}

\* Python truthiness of the body: None, {} and [] are falsy.
Falsy(data) == data.kind = "none" \/ (data._id = 0 /\ data.name = "")

\* The "tag_ids" value of a request body.
Missing == [type |-> "missing", elems |-> <<>>]
NotList == [type |-> "string", elems |-> <<>>]
List(s) == [type |-> "list", elems |-> s]

\* ObjectIds of the documents of a collection.
OidsOf(coll) == {coll[k]._id.val : k \in {h \in 1..Len(coll) : coll[h]._id.kind = "oid"}}

\* The item_id strings a request is tried with: the id of every item, an id
\* of no item, an upper-case spelling, and a malformed string.
ItemIdStrings ==
    {Hex(n, FALSE) : n \in OidsOf(items) \cup {nextOid}} \cup {Hex(1, TRUE), Text}

\* The values the elements of tag_ids are drawn from: the id of every tag, an
\* id of no tag, a malformed value, and null.
TagIdValues == {Hex(n, FALSE) : n \in OidsOf(tags) \cup {nextOid}} \cup {Text, Null}

\* Bodies of POST /items/<item_id>/tags: no body, a JSON array, an object
\* without "tag_ids", with a string for it, or with a list.
AssocBodies ==
    {[kind |-> "none", tag_ids |-> Missing], [kind |-> "array", tag_ids |-> Missing]}
    \cup {[kind |-> "object", tag_ids |-> t] :
             t \in {Missing, NotList} \cup {List(s) : s \in SeqsUpTo(TagIdValues, MaxLen)}}

(* ------------------------------ responses ----------------------------- *)
Resp(op, status, error) ==
    [op |-> op, status |-> status, error |-> error, inserted_id |-> Text,
     item_id |-> Text, tag_ids |-> <<>>, docs |-> <<>>]

\* An exception no handler catches: the framework answers 500.
Unhandled(op) == Resp(op, 500, "Unhandled")

NoResponse == Resp("none", 0, "")

\* A request: the handler, the item_id of the path, the JSON body.
Req(op, item_id, payload, body) == [op |-> op, item_id |-> item_id, payload |-> payload, body |-> body]
NoRequest == Req("none", Text, NoBody, [kind |-> "none", tag_ids |-> Missing])

\* A worker between requests.
Idle == [pc |-> "idle", item_oid |-> 0, tag_oids |-> <<>>, valid |-> FALSE, result |-> ""]

Init ==
    /\ items = <<>>
    /\ tags = <<>>
    /\ item_tags = <<>>
    /\ nextOid = 1
    /\ response = NoResponse
    /\ request = NoRequest
    /\ assoc_log = [n \in 1..MaxOid |-> {}]
    /\ workers = [w \in 1..NumWorkers |-> Idle]

(* ------------------------------ insert_one ---------------------------- *)
\* insert_one raises TypeError for a non-mapping and DuplicateKeyError when
\* the document's own "_id" is already in the collection.
InsertRaises(coll, data) ==
    \/ data.kind # "object"
    \/ data._id # 0 /\ \E k \in 1..Len(coll) : coll[k]._id = Raw(data._id)

\* The _id insert_one stores: the document's own, else a generated ObjectId.
InsertedId(data) == IF data._id # 0 THEN Raw(data._id) ELSE Oid(nextOid)

InsertOne(coll, data) == Append(coll, [_id |-> InsertedId(data), name |-> data.name])

\* POST /items
create_item(data) ==
    /\ IF Falsy(data)
       THEN /\ response' = Resp("create_item", 400, "EmptyPayload")
            /\ UNCHANGED <<items, nextOid>>
       ELSE IF InsertRaises(items, data)
       THEN /\ response' = Unhandled("create_item")
            /\ UNCHANGED <<items, nextOid>>
       ELSE /\ Len(items) + Len(tags) < MaxDocs
            /\ items' = InsertOne(items, data)
            /\ nextOid' = IF data._id = 0 THEN nextOid + 1 ELSE nextOid
            /\ response' = [Resp("create_item", 201, "") EXCEPT
                               !.inserted_id = StrId(InsertedId(data))]
    /\ UNCHANGED <<tags, item_tags, assoc_log, workers>>

\* POST /tags
create_tag(data) ==
    /\ IF Falsy(data)
       THEN /\ response' = Resp("create_tag", 400, "EmptyPayload")
            /\ UNCHANGED <<tags, nextOid>>
       ELSE IF InsertRaises(tags, data)
       THEN /\ response' = Unhandled("create_tag")
            /\ UNCHANGED <<tags, nextOid>>
       ELSE /\ Len(items) + Len(tags) < MaxDocs
            /\ tags' = InsertOne(tags, data)
            /\ nextOid' = IF data._id = 0 THEN nextOid + 1 ELSE nextOid
            /\ response' = [Resp("create_tag", 200, "") EXCEPT
                               !.inserted_id = StrId(InsertedId(data))]
    /\ UNCHANGED <<items, item_tags, assoc_log, workers>>

\* A plausible slip: the id is returned as stored.
Externalize_raw(d) == d

\* item["_id"] = str(item["_id"])
Externalize(d) == [_id |-> StrId(d._id), name |-> d.name]

\* for item in items: item["_id"] = str(item["_id"])
ExternalizeAll(docs) == [k \in 1..Len(docs) |-> Externalize(docs[k])]

\* GET /items
list_items ==
    /\ response' = [Resp("list_items", 200, "") EXCEPT !.docs = ExternalizeAll(items)]
    /\ UNCHANGED <<items, tags, item_tags, nextOid, assoc_log, workers>>

\* GET /tags: the documents go out with their ids as stored.
list_tags ==
    /\ response' = [Resp("list_tags", 200, "") EXCEPT !.docs = tags]
    /\ UNCHANGED <<items, tags, item_tags, nextOid, assoc_log, workers>>

(* ----------------------- item-tag associations ------------------------ *)
\* data.get("tag_ids", []) on a body that is no object raises AttributeError.
GetRaises(data) == data.kind # "object"

\* not isinstance(tag_ids, list) or not tag_ids  (a missing key defaults to [])
BadTagIds(tag_ids) == tag_ids.type # "list" \/ tag_ids.elems = <<>>

\* the try block: ObjectId(item_id) or ObjectId(tag_id) raises
ParseRaises(item_id, elems) ==
    ObjectIdRaises(item_id) \/ \E k \in 1..Len(elems) : ObjectIdRaises(elems[k])

\* existing_tags = set(doc["_id"] for doc in tags.find({"_id": {"$in": tag_oids}}))
ExistingTags(tag_oids) ==
    {SelectDocs(tags, Range(tag_oids))[k]._id : k \in 1..Len(SelectDocs(tags, Range(tag_oids)))}

\* A plausible slip: the tag check left out.
TagsMissing_skipped(tag_oids) == FALSE

\* len(existing_tags) != len(tag_oids)
TagsMissing(tag_oids) == Cardinality(ExistingTags(tag_oids)) # Len(tag_oids)

\* A plausible slip: "$set" in place of "$addToSet" (the array is replaced).
AddToSet_set(arr, new) == new

RECURSIVE AddToSet(_, _)
\* {"$addToSet": {"tag_ids": {"$each": new}}}: each value not yet in the array
\* is appended.
AddToSet(arr, new) ==
    IF new = <<>> THEN arr
    ELSE AddToSet(IF Head(new) \in Range(arr) THEN arr ELSE Append(arr, Head(new)), Tail(new))

\* A plausible slip: insert_one in place of the upsert.
UpdateOne_insert(coll, item_oid, tag_oids) ==
    Append(coll, [item_id |-> item_oid, tag_ids |-> tag_oids])

\* item_tags.update_one({"item_id": item_oid}, {$addToSet ...}, upsert=True):
\* the first matching document is updated; without a match one is inserted.
UpdateOne(coll, item_oid, tag_oids) ==
    IF \E k \in 1..Len(coll) : coll[k].item_id = item_oid
    THEN LET k == CHOOSE j \in 1..Len(coll) :
                      /\ coll[j].item_id = item_oid
                      /\ \A h \in 1..(j - 1) : coll[h].item_id # item_oid
         IN  [coll EXCEPT ![k].tag_ids = AddToSet(@, tag_oids)]
    ELSE Append(coll, [item_id |-> item_oid, tag_ids |-> AddToSet(<<>>, tag_oids)])

\* The handler's answer to (item_id, data) in the current state.
AssocOutcome(item_id, data) ==
    IF GetRaises(data) THEN "Unhandled"
    ELSE IF BadTagIds(data.tag_ids) THEN "InvalidInput"
    ELSE IF ParseRaises(item_id, data.tag_ids.elems) THEN "InvalidIdentifier"
    ELSE IF ~FindOneById(items, ObjectId(item_id)) THEN "ItemNotFound"
    ELSE IF TagsMissing(ObjectIds(data.tag_ids.elems)) THEN "TagsNotFound"
    ELSE ""

StatusOf(error) ==
    CASE error = "" -> 200
      [] error \in {"InvalidInput", "InvalidIdentifier"} -> 400
      [] error \in {"ItemNotFound", "TagsNotFound"} -> 404
      [] OTHER -> 500

\* A plausible slip: the upsert placed before the tag check, so a request
\* answered TagsNotFound has already written.
create_item_tag_association_early(item_id, data) ==
    LET error == AssocOutcome(item_id, data) IN
    /\ response' = IF error # "" THEN Resp("associate", StatusOf(error), error)
                   ELSE [Resp("associate", 200, "") EXCEPT
                            !.item_id = item_id,
                            !.tag_ids = StrOids(ObjectIds(data.tag_ids.elems))]
    /\ IF error \in {"", "TagsNotFound"}
       THEN item_tags' = UpdateOne(item_tags, ObjectId(item_id), ObjectIds(data.tag_ids.elems))
       ELSE UNCHANGED item_tags
    /\ IF error = ""
       THEN assoc_log' = [assoc_log EXCEPT ![ObjectId(item_id)] =
                             @ \cup Range(ObjectIds(data.tag_ids.elems))]
       ELSE UNCHANGED assoc_log
    /\ UNCHANGED <<items, tags, nextOid, workers>>

\* POST /items/<item_id>/tags
create_item_tag_association(item_id, data) ==
    LET error == AssocOutcome(item_id, data) IN
    /\ IF error # ""
       THEN /\ response' = Resp("associate", StatusOf(error), error)
            /\ UNCHANGED <<item_tags, assoc_log>>
       ELSE LET item_oid == ObjectId(item_id)
                tag_oids == ObjectIds(data.tag_ids.elems)
            IN  /\ item_tags' = UpdateOne(item_tags, item_oid, tag_oids)
                /\ assoc_log' = [assoc_log EXCEPT ![item_oid] = @ \cup Range(tag_oids)]
                /\ response' = [Resp("associate", 200, "") EXCEPT
                                   !.item_id = item_id,
                                   !.tag_ids = StrOids(tag_oids)]
    /\ UNCHANGED <<items, tags, nextOid, workers>>

\* item_tags.find_one({"item_id": item_oid}): the first match, or none.
HasTagMap(item_oid) == \E k \in 1..Len(item_tags) : item_tags[k].item_id = item_oid
TagMap(item_oid) ==
    item_tags[CHOOSE j \in 1..Len(item_tags) :
                  /\ item_tags[j].item_id = item_oid
                  /\ \A h \in 1..(j - 1) : item_tags[h].item_id # item_oid]

\* GET /items/<item_id>/tags
get_tags_for_item(item_id) ==
    /\ IF ObjectIdRaises(item_id)
       THEN response' = Resp("tags_for", 400, "InvalidIdentifier")
       ELSE IF ~HasTagMap(ObjectId(item_id)) \/ TagMap(ObjectId(item_id)).tag_ids = <<>>
       THEN response' = Resp("tags_for", 200, "")
       ELSE response' = [Resp("tags_for", 200, "") EXCEPT
                            !.docs = ExternalizeAll(
                                SelectDocs(tags, Range(TagMap(ObjectId(item_id)).tag_ids)))]
    /\ UNCHANGED <<items, tags, item_tags, nextOid, assoc_log, workers>>

Next ==
    \/ \E data \in Payloads : create_item(data) /\ UNCHANGED request
    \/ \E data \in Payloads : create_tag(data) /\ UNCHANGED request
    \/ list_items /\ UNCHANGED request
    \/ list_tags /\ UNCHANGED request
    \/ \E item_id \in ItemIdStrings, data \in AssocBodies :
           create_item_tag_association(item_id, data) /\ UNCHANGED request
    \/ \E item_id \in ItemIdStrings : get_tags_for_item(item_id) /\ UNCHANGED request

Spec == Init /\ [][Next]_vars

\* The same handlers, the request of each step kept in the state.
NextLogged ==
    \/ \E data \in Payloads :
           create_item(data) /\ request' = Req("create_item", Text, data, NoRequest.body)
    \/ \E data \in Payloads :
           create_tag(data) /\ request' = Req("create_tag", Text, data, NoRequest.body)
    \/ list_items /\ request' = Req("list_items", Text, NoBody, NoRequest.body)
    \/ list_tags /\ request' = Req("list_tags", Text, NoBody, NoRequest.body)
    \/ \E item_id \in ItemIdStrings, data \in AssocBodies :
           create_item_tag_association(item_id, data) /\ request' = Req("associate", item_id, NoBody, data)
    \/ \E item_id \in ItemIdStrings :
           get_tags_for_item(item_id) /\ request' = Req("tags_for", item_id, NoBody, NoRequest.body)

SpecLogged == Init /\ [][NextLogged]_vars

(* -------------------- concurrent associate requests ------------------- *)
\* One item (ObjectId 1) and two tags (ObjectIds 2 and 3) are stored, as after
\* create_item, create_tag, create_tag; the workers then serve
\* POST /items/<item_id>/tags requests whose storage calls interleave.
InitConc ==
    /\ items = <<[_id |-> Oid(1), name |-> "a"]>>
    /\ tags = <<[_id |-> Oid(2), name |-> "a"], [_id |-> Oid(3), name |-> "a"]>>
    /\ item_tags = <<>>
    /\ nextOid = 4
    /\ response = NoResponse
    /\ request = NoRequest
    /\ assoc_log = [n \in 1..MaxOid |-> {}]
    /\ workers = [w \in 1..NumWorkers |-> Idle]

\* A worker whose handler has returned result ("" for success).
Done(w, result) == [w EXCEPT !.pc = "done", !.result = result]

\* Lines 145-155: the body is read and the ids are parsed; no storage call.
\* valid records whether the item and every requested tag exist at this point.
Begin(w, item_id, data) ==
    /\ workers[w].pc = "idle"
    /\ LET valid == /\ ~GetRaises(data)
                    /\ ~BadTagIds(data.tag_ids)
                    /\ ~ParseRaises(item_id, data.tag_ids.elems)
                    /\ ObjectId(item_id) \in OidsOf(items)
                    /\ Range(ObjectIds(data.tag_ids.elems)) \subseteq OidsOf(tags)
       IN  workers' = [workers EXCEPT ![w] =
               IF GetRaises(data) THEN Done(Idle, "Unhandled")
               ELSE IF BadTagIds(data.tag_ids) THEN Done(Idle, "InvalidInput")
               ELSE IF ParseRaises(item_id, data.tag_ids.elems) THEN Done(Idle, "InvalidIdentifier")
               ELSE [pc |-> "find_item", item_oid |-> ObjectId(item_id),
                     tag_oids |-> ObjectIds(data.tag_ids.elems),
                     valid |-> valid, result |-> ""]]
    /\ UNCHANGED <<items, tags, item_tags, nextOid, response, request, assoc_log>>

\* Line 158: items.find_one
FindItem(w) ==
    /\ workers[w].pc = "find_item"
    /\ workers' = [workers EXCEPT ![w] =
           IF FindOneById(items, @.item_oid) THEN [@ EXCEPT !.pc = "find_tags"]
           ELSE Done(@, "ItemNotFound")]
    /\ UNCHANGED <<items, tags, item_tags, nextOid, response, request, assoc_log>>

\* Lines 162-164: tags.find and the length comparison
FindTags(w) ==
    /\ workers[w].pc = "find_tags"
    /\ workers' = [workers EXCEPT ![w] =
           IF TagsMissing(@.tag_oids) THEN Done(@, "TagsNotFound")
           ELSE [@ EXCEPT !.pc = "update"]]
    /\ UNCHANGED <<items, tags, item_tags, nextOid, response, request, assoc_log>>

\* Lines 167-171: item_tags.update_one, one atomic storage operation
Update(w) ==
    /\ workers[w].pc = "update"
    /\ item_tags' = UpdateOne(item_tags, workers[w].item_oid, workers[w].tag_oids)
    /\ assoc_log' = [assoc_log EXCEPT ![workers[w].item_oid] = @ \cup Range(workers[w].tag_oids)]
    /\ workers' = [workers EXCEPT ![w] = Done(@, "")]
    /\ UNCHANGED <<items, tags, nextOid, response, request>>

\* The response is sent; the worker takes the next request.
Return(w) ==
    /\ workers[w].pc = "done"
    /\ workers' = [workers EXCEPT ![w] = Idle]
    /\ UNCHANGED <<items, tags, item_tags, nextOid, response, request, assoc_log>>

NextConc ==
    \/ \E w \in 1..NumWorkers, item_id \in ItemIdStrings, data \in AssocBodies : Begin(w, item_id, data)
    \/ \E w \in 1..NumWorkers : FindItem(w)
    \/ \E w \in 1..NumWorkers : FindTags(w)
    \/ \E w \in 1..NumWorkers : Update(w)
    \/ \E w \in 1..NumWorkers : Return(w)

SpecConc == InitConc /\ [][NextConc]_vars

(* ------------------------------- claims ------------------------------- *)
\* The tag ids stored for item oid n, over every item_tags document of n.
StoredSet(coll, n) == UNION {Range(coll[k].tag_ids) : k \in {h \in 1..Len(coll) : coll[h].item_id = n}}

\* The item_tags documents of item oid n, in collection order.
RecordsOf(coll, n) == SelectSeq(coll, LAMBDA r : r.item_id = n)

\* tag_ids elements that are well-formed id strings of stored tags
AllExistingTags(elems) ==
    \A k \in 1..Len(elems) : elems[k].kind = "hex" /\ elems[k].val \in OidsOf(tags)

\* C1: a successful associate(i, S) leaves the stored tag-id set of i equal
\* to the set stored before (empty without a record) united with S; hence the
\* stored set is the union of the sets of all successful calls for i, which
\* makes a repeated call a no-op and {a} then {b} store {a, b} in either order.
C1_AssociateIsUnionUpsert ==
    [][(response'.op = "associate" /\ response'.status = 200) =>
          \A item_id \in ItemIdStrings, data \in AssocBodies :
              create_item_tag_association(item_id, data) =>
                  /\ StoredSet(item_tags', ObjectId(item_id)) =
                         StoredSet(item_tags, ObjectId(item_id))
                             \cup Range(ObjectIds(data.tag_ids.elems))
                  /\ StoredSet(item_tags', ObjectId(item_id)) = assoc_log'[ObjectId(item_id)]]_vars

\* A call has just succeeded for an item that already had other tags stored.
C1_Witness ==
    /\ response.op = "associate" /\ response.status = 200
    /\ \E k \in 1..Len(item_tags) :
           /\ item_tags[k].item_id = ObjectId(response.item_id)
           /\ Len(item_tags[k].tag_ids) = 2
           /\ Len(response.tag_ids) = 1

\* C2: for an existing item and a tag_ids list whose entries are all
\* well-formed ids of existing tags, associate does not fail with
\* TagsNotFound, also when the list repeats an id.
C2_DuplicatesCollapse ==
    (/\ response.op = "associate"
     /\ request.body.kind = "object" /\ request.body.tag_ids.type = "list"
     /\ request.body.tag_ids.elems # <<>>
     /\ AllExistingTags(request.body.tag_ids.elems)
     /\ request.item_id.kind = "hex" /\ request.item_id.val \in OidsOf(items))
    => response.error # "TagsNotFound"

\* C3: every tag id stored in an association record is the id of a document
\* of the tags collection.
C3_StoredTagsExist ==
    \A k \in 1..Len(item_tags) : Range(item_tags[k].tag_ids) \subseteq OidsOf(tags)

\* A record holds two tag ids.
C3_Witness == \E k \in 1..Len(item_tags) : Cardinality(Range(item_tags[k].tag_ids)) = 2

\* C4: item_tags holds at most one record per item id, and no record's
\* tag_ids holds a tag id twice.
C4_OneRecordNoDuplicates ==
    /\ \A j, k \in 1..Len(item_tags) : item_tags[j].item_id = item_tags[k].item_id => j = k
    /\ \A k \in 1..Len(item_tags) :
           Cardinality(Range(item_tags[k].tag_ids)) = Len(item_tags[k].tag_ids)

\* A second call for an item whose record already held the requested tag.
C4_Witness ==
    /\ response.op = "associate" /\ response.status = 200
    /\ Len(response.tag_ids) = 2
    /\ \E k \in 1..Len(item_tags) :
           /\ item_tags[k].item_id = ObjectId(response.item_id)
           /\ item_tags[k].tag_ids # ObjectIds(response.tag_ids)

\* The error the claimed order of checks gives for a request.
FirstFailingCheck(item_id, data) ==
    IF data.kind # "object" \/ data.tag_ids.type # "list" \/ data.tag_ids.elems = <<>>
    THEN "InvalidInput"
    ELSE IF item_id.kind # "hex" \/ \E k \in 1..Len(data.tag_ids.elems) : data.tag_ids.elems[k].kind # "hex"
    THEN "InvalidIdentifier"
    ELSE IF item_id.val \notin OidsOf(items) THEN "ItemNotFound"
    ELSE IF \E k \in 1..Len(data.tag_ids.elems) : data.tag_ids.elems[k].val \notin OidsOf(tags)
    THEN "TagsNotFound"
    ELSE ""

\* C5: for every request whose body is a JSON object, associate reports the
\* first failing check in the order InvalidInput, InvalidIdentifier,
\* ItemNotFound, TagsNotFound, and succeeds when none fails.
C5_ChecksInFixedOrder ==
    (response.op = "associate" /\ request.body.kind = "object")
    => response.error = FirstFailingCheck(request.item_id, request.body)

\* C6: a request whose tag_ids is missing (the body absent or no JSON object
\* included), not a list, or empty is answered 400 InvalidInput.
C6_BadTagIdsIsInvalidInput ==
    (/\ response.op = "associate"
     /\ \/ request.body.kind # "object"
        \/ request.body.tag_ids.type # "list"
        \/ request.body.tag_ids.elems = <<>>)
    => response.status = 400 /\ response.error = "InvalidInput"

\* The tag documents with ObjectIds in S, ids as lower-case hex strings.
TagDocsOf(S) ==
    {[_id |-> Hex(tags[k]._id.val, FALSE), name |-> tags[k].name] :
         k \in {h \in 1..Len(tags) : tags[h]._id.kind = "oid" /\ tags[h]._id.val \in S}}

CreateAsClaimed(before, after, resp, data) ==
    IF Falsy(data)
    THEN resp.error = "EmptyPayload" /\ after = before
    ELSE /\ resp.error = ""
         /\ Len(after) = Len(before) + 1
         /\ SubSeq(after, 1, Len(before)) = before
         /\ after[Len(after)].name = data.name
         /\ \A k \in 1..Len(before) : before[k]._id # after[Len(after)]._id
         /\ resp.inserted_id = StrId(after[Len(after)]._id)

\* C8: create(P) with a non-empty JSON object P returns a fresh identifier
\* and appends P exactly once, keeping the earlier documents; an empty or
\* absent payload fails with EmptyPayload and adds nothing.
C8_CreateThenList ==
    [][request'.payload.kind \in {"none", "object"} =>
          /\ response'.op = "create_item" =>
                 CreateAsClaimed(items, items', response', request'.payload)
          /\ response'.op = "create_tag" =>
                 CreateAsClaimed(tags, tags', response', request'.payload)]_vars

\* C9: associate never changes items, tags or the record of another item;
\* an associate that returns an error changes no collection at all.
C9_AssociateFrame ==
    [][response'.op = "associate" =>
          /\ items' = items
          /\ tags' = tags
          /\ response'.error # "" => item_tags' = item_tags
          /\ response'.error = "" =>
                 \A n \in 1..MaxOid :
                     n # ObjectId(response'.item_id) =>
                         RecordsOf(item_tags', n) = RecordsOf(item_tags, n)]_vars

\* A call failed with TagsNotFound while two items had records.
C9_Witness ==
    /\ response.op = "associate" /\ response.error = "TagsNotFound"
    /\ Len(item_tags) = 2

\* C10: every concurrent call that was given an existing item and existing
\* tags succeeds, and when no call is in flight the item has one record whose
\* tag-id set is the union of the requested sets.
C10_ConcurrentCallsJoin ==
    /\ \A w \in 1..NumWorkers :
           (workers[w].pc = "done" /\ workers[w].valid) => workers[w].result = ""
    /\ (\A w \in 1..NumWorkers : workers[w].pc \in {"idle", "done"}) =>
           \A n \in 1..MaxOid :
               /\ Len(RecordsOf(item_tags, n)) <= 1
               /\ StoredSet(item_tags, n) = assoc_log[n]

\* The concurrency content alone: calls whose list repeats no id succeed when
\* item and tags exist, and no update is lost or record duplicated.
Conc_NoLostUpdate ==
    /\ \A w \in 1..NumWorkers :
           (/\ workers[w].pc = "done" /\ workers[w].valid
            /\ Cardinality(Range(workers[w].tag_oids)) = Len(workers[w].tag_oids))
           => workers[w].result = ""
    /\ \A n \in 1..MaxOid :
           /\ Len(RecordsOf(item_tags, n)) <= 1
           /\ StoredSet(item_tags, n) = assoc_log[n]
====
